---- MODULE Spec2Model ----
(***************************************************************************)
(* Model of redis_cache/utils.py: the self-healing client proxy            *)
(* (ClientProxy + MethodProxy) and the address parser                      *)
(* (parse_connection_kwargs).                                              *)
(*                                                                         *)
(* Spec       : one ClientProxy, its cached MethodProxy objects and up to  *)
(*              two caller threads running guarded calls concurrently.     *)
(* SpecParse  : parse_connection_kwargs applied to bounded inputs.         *)
(***************************************************************************)
EXTENDS Integers, Sequences, FiniteSets, TLC

VARIABLES
    \* ---- ClientProxy fields (utils.py 196-208)
    client_class, connection_kwargs, connection_pool_kwargs,
    client,              \* ClientProxy.client: id of the current client
    method_cache,        \* ClientProxy._method_cache: attr -> MethodProxy id
    \* ---- heap
    methodProxies,       \* MethodProxy id -> [client, method_attr]
    clients,             \* client id -> [connection_pool, identifier, kwargs]
    connection_pools,    \* pool._connection_pools: identifier -> pool id
    nextPool,            \* next fresh pool id
    \* ---- result of the last member access on the proxy
    lastAccess,
    \* ---- one guarded call per thread
    pc, self, args, call_count, newClient, retval, outcome,
    \* ---- history of the running call and of the proxy
    invs,                \* per thread: the invocations of the running call
    evictions,           \* per thread: evictions of the running call
    creates,             \* per thread: clients create_client built for the call
    keyErrors,           \* per thread: KeyErrors caught at line 185 in the call
    installs,            \* number of stores to ClientProxy.client so far
    calls,               \* guarded calls started so far
    \* ---- parse_connection_kwargs
    server, db, kwargs, parsed

proxyVars == <<client_class, connection_kwargs, connection_pool_kwargs,
               client, method_cache, methodProxies, clients,
               connection_pools, nextPool, lastAccess>>
callVars  == <<pc, self, args, call_count, newClient, retval, outcome>>
histVars  == <<invs, evictions, creates, keyErrors, installs, calls>>
parseVars == <<server, db, kwargs, parsed>>
vars == <<proxyVars, callVars, histVars, parseVars>>

---------------------------------------------------------------------------
(* Bounds and small input sets *)

MaxCalls == 3

Threads    == {1, 2}             \* caller threads
SeqThreads == {1}                \* the caller when calls are made one at a time
Values  == {"v1", "v2"}          \* what the underlying callable may return
ArgSets == {"a1"}                \* the (*args, **kwargs) of a guarded call
ErrorTypes == {"ConnectionError", "OtherError"}
None    == "None"

CallableAttrs    == {"get", "set"}
NonCallableAttrs == {"connection_pool"}
MissingAttrs     == {"nosuch"}
Attrs == CallableAttrs \cup NonCallableAttrs \cup MissingAttrs

\* MethodProxy.max_call_count
max_call_count == 3

---------------------------------------------------------------------------
(* The pool registry (redis_cache.connection, outside utils.py) *)

\* The connection identifier a client was registered under: derived from the
\* combined connection + pool parameters it was built from.
get_connection_identifier_from_client(c) == clients[c].identifier

ConnectionIdentifier(ckw, pkw) == <<ckw, pkw>>

\* An entry of another proxy living in the same process-wide registry.
OtherIdentifier == ConnectionIdentifier("connB", "poolB")

\* pool.get_connection_pool: the registered pool when the identifier is
\* present, otherwise a fresh pool.
get_connection_pool(reg, id, fresh) ==
    IF id \in DOMAIN reg THEN reg[id] ELSE fresh

RegisterPool(reg, id, p) ==
    [i \in DOMAIN reg \cup {id} |-> IF i = id THEN p ELSE reg[i]]

---------------------------------------------------------------------------
(* ClientProxy *)

\* create_client (210-217): the client built from the proxy's parameters and
\* bound to the pool the registry hands out for its identifier.
NewClientRecord(reg) ==
    LET id == ConnectionIdentifier(connection_kwargs, connection_pool_kwargs)
    IN  [client_class    |-> client_class,
         kwargs          |-> connection_kwargs,
         identifier      |-> id,
         connection_pool |-> get_connection_pool(reg, id, nextPool)]

RegistryAfterCreate(reg) ==
    LET id == ConnectionIdentifier(connection_kwargs, connection_pool_kwargs)
    IN  RegisterPool(reg, id, get_connection_pool(reg, id, nextPool))

\* faulty variant: the cache is never consulted: every access wraps the callable anew
NeverCached(cache, attr) == FALSE

\* line 221: attr not in self.__dict__['_method_cache']
InMethodCache(cache, attr) == attr \in DOMAIN cache

\* line 222: MethodProxy(self, self.client, attr)
NewMethodProxy(attr) == [client |-> client, method_attr |-> attr]

\* ClientProxy.__getattr__ (219-225)
GetAttr(attr) ==
    /\ \/ /\ attr \in MissingAttrs          \* getattr(self.client, attr) raises
          /\ lastAccess' = [attr |-> attr, kind |-> "AttributeError", ref |-> 0]
          /\ UNCHANGED <<method_cache, methodProxies>>
       \/ /\ attr \in CallableAttrs
          /\ IF InMethodCache(method_cache, attr)
             THEN /\ lastAccess' = [attr |-> attr, kind |-> "MethodProxy",
                                    ref |-> method_cache[attr]]
                  /\ UNCHANGED <<method_cache, methodProxies>>
             ELSE LET g == Len(methodProxies) + 1 IN
                  /\ methodProxies' = Append(methodProxies, NewMethodProxy(attr))
                  /\ method_cache' =
                        [a \in DOMAIN method_cache \cup {attr} |->
                            IF a = attr THEN g ELSE method_cache[a]]
                  /\ lastAccess' = [attr |-> attr, kind |-> "MethodProxy", ref |-> g]
       \/ /\ attr \in NonCallableAttrs
          /\ lastAccess' = [attr |-> attr, kind |-> "value",
                            ref |-> clients[client].connection_pool]
          /\ UNCHANGED <<method_cache, methodProxies>>
    /\ UNCHANGED <<client_class, connection_kwargs, connection_pool_kwargs,
                   client, clients, connection_pools, nextPool>>
    /\ UNCHANGED <<callVars, histVars, parseVars>>

---------------------------------------------------------------------------
(* MethodProxy *)

Returned(v) == [kind |-> "returned", value |-> v, exc |-> None]
Raised(e)   == [kind |-> "raised", value |-> None, exc |-> e]
NoOutcome   == [kind |-> "none", value |-> None, exc |-> None]
\* an exception object: its class, the attempt it was raised in, and what
\* raised it (the underlying callable at line 176, or create_client at 189)
Exc(type, attempt) ==
    [type |-> type, attempt |-> attempt, raisedBy |-> "callable"]
CreateExc(type, attempt) ==
    [type |-> type, attempt |-> attempt, raisedBy |-> "create_client"]

\* line 176: the client the callable is looked up on, self.client
CallTarget(g) == methodProxies[g].client

\* faulty variant: off by one: gives up one attempt late
ExhaustedOneLate(n) == n = max_call_count + 1

\* line 178: call_count == self.max_call_count
Exhausted(n) == n = max_call_count

\* faulty variant: the exhausted failure is wrapped in another error
ReraiseWrapped(exc) ==
    [type |-> "ImproperlyConfigured", attempt |-> exc.attempt,
     raisedBy |-> exc.raisedBy]

\* line 179: raise exc
Reraise(exc) == exc

\* faulty variant: a bare except: every error is treated as a connectivity failure
IsAnyError(type) == TRUE

\* line 177: except ConnectionError
IsConnectionError(type) == type = "ConnectionError"

\* lines 183-186: del pool._connection_pools[identifier], KeyError passed
DelConnectionPool(reg, id) == [i \in DOMAIN reg \ {id} |-> reg[i]]

\* faulty variant: no except KeyError: deleting an absent identifier raises
KeyErrorUnhandled(reg, id) == id \notin DOMAIN reg

\* lines 185-186: except KeyError: pass -- the KeyError of deleting an absent
\* identifier never leaves the handler
KeyErrorEscapes(reg, id) == FALSE

\* faulty variant: create_client stores the client it built in ClientProxy.client
ClientStoredByCreate(c) == c

\* create_client only returns the client it built (line 217); it does not
\* store it in ClientProxy.client
ClientAfterCreate(c) == client

\* faulty variant: the client that failed is kept: the new one is never stored
InstalledPrevious(t) == methodProxies[self[t]].client

\* faulty variant: first writer wins: a client another call installed is kept
InstalledUnlessReplaced(t) ==
    IF client = invs[t][Len(invs[t])].client THEN newClient[t] ELSE client

\* line 189: the value stored in self.client and self.client_proxy.client
InstalledClient(t) == newClient[t]

\* line 190: self._call(call_count + 1, ...) is a bare expression statement,
\* so the frame that retried ends without a return value.
RetryResult(v) == None

Invocation(t, result) ==
    [attempt     |-> call_count[t],
     client      |-> CallTarget(self[t]),
     attr        |-> methodProxies[self[t]].method_attr,
     args        |-> args[t],
     result      |-> result]

\* __call__ (192-193): self._call(1, *args, **kwargs)
Call(t, g, a) ==
    /\ pc[t] = "idle"
    /\ g \in DOMAIN methodProxies
    /\ pc' = [pc EXCEPT ![t] = "invoke"]
    /\ self' = [self EXCEPT ![t] = g]
    /\ args' = [args EXCEPT ![t] = a]
    /\ call_count' = [call_count EXCEPT ![t] = 1]
    /\ calls' = calls + 1
    /\ UNCHANGED <<newClient, retval, outcome, invs, evictions, creates,
                   keyErrors, installs>>
    /\ UNCHANGED <<proxyVars, parseVars>>

\* line 176, the callable returns v
InvokeReturns(t, v) ==
    /\ pc[t] = "invoke"
    /\ invs' = [invs EXCEPT ![t] = Append(@, Invocation(t, Returned(v)))]
    /\ retval' = [retval EXCEPT ![t] = v]
    /\ IF call_count[t] = 1
       THEN /\ pc' = [pc EXCEPT ![t] = "done"]
            /\ outcome' = [outcome EXCEPT ![t] = Returned(v)]
       ELSE /\ pc' = [pc EXCEPT ![t] = "return"]
            /\ UNCHANGED outcome
    /\ UNCHANGED <<self, args, call_count, newClient, evictions, creates,
                   keyErrors, installs, calls>>
    /\ UNCHANGED <<proxyVars, parseVars>>

\* lines 176-179, the callable raises an error of the given type
InvokeRaises(t, type) ==
    LET exc == Exc(type, call_count[t]) IN
    /\ pc[t] = "invoke"
    /\ invs' = [invs EXCEPT ![t] = Append(@, Invocation(t, Raised(exc)))]
    /\ IF IsConnectionError(type) /\ ~Exhausted(call_count[t])
       THEN /\ pc' = [pc EXCEPT ![t] = "evict"]
            /\ UNCHANGED outcome
       ELSE /\ pc' = [pc EXCEPT ![t] = "done"]
            /\ outcome' = [outcome EXCEPT ![t] =
                  Raised(IF IsConnectionError(type) THEN Reraise(exc) ELSE exc)]
    /\ UNCHANGED <<self, args, call_count, newClient, retval, evictions,
                   creates, keyErrors, installs, calls>>
    /\ UNCHANGED <<proxyVars, parseVars>>

\* lines 182-186
Evict(t) ==
    LET id == get_connection_identifier_from_client(CallTarget(self[t])) IN
    /\ pc[t] = "evict"
    /\ connection_pools' = DelConnectionPool(connection_pools, id)
    /\ evictions' = [evictions EXCEPT ![t] = @ + 1]
    /\ keyErrors' = [keyErrors EXCEPT ![t] =
                        IF id \in DOMAIN connection_pools THEN @ ELSE @ + 1]
    /\ IF KeyErrorEscapes(connection_pools, id)
       THEN /\ pc' = [pc EXCEPT ![t] = "done"]
            /\ outcome' = [outcome EXCEPT ![t] =
                              Raised(Exc("KeyError", call_count[t]))]
       ELSE /\ pc' = [pc EXCEPT ![t] = "create"]
            /\ UNCHANGED outcome
    /\ UNCHANGED <<client_class, connection_kwargs, connection_pool_kwargs,
                   client, method_cache, methodProxies, clients, nextPool,
                   lastAccess>>
    /\ UNCHANGED <<self, args, call_count, newClient, retval>>
    /\ UNCHANGED <<invs, creates, installs, calls>>
    /\ UNCHANGED parseVars

\* line 189, right-hand side: self.client_proxy.create_client() returns
CreateClient(t) ==
    LET c == Len(clients) + 1 IN
    /\ pc[t] = "create"
    /\ clients' = Append(clients, NewClientRecord(connection_pools))
    /\ connection_pools' = RegistryAfterCreate(connection_pools)
    /\ nextPool' = IF clients'[c].connection_pool = nextPool
                   THEN nextPool + 1 ELSE nextPool
    /\ newClient' = [newClient EXCEPT ![t] = c]
    /\ creates' = [creates EXCEPT ![t] = @ + 1]
    /\ client' = ClientAfterCreate(c)
    /\ installs' = IF client' = client THEN installs ELSE installs + 1
    /\ pc' = [pc EXCEPT ![t] = "assign_self"]
    /\ UNCHANGED <<client_class, connection_kwargs, connection_pool_kwargs,
                   method_cache, methodProxies, lastAccess>>
    /\ UNCHANGED <<self, args, call_count, retval, outcome>>
    /\ UNCHANGED <<invs, evictions, keyErrors, calls>>
    /\ UNCHANGED parseVars

\* faulty variant: create_client() is called under the try of line 175, so its
\* ConnectionError is taken for one more failed invocation
CreateErrorRetried(type) == type = "ConnectionError"

\* line 189 stands in the except block, outside the try of lines 175-176:
\* no handler of _call catches what create_client() raises, whatever its
\* class, and the frames below (line 190) are outside their try as well
CreateErrorCaught(type) == FALSE

\* line 189, right-hand side: create_client() raises (client_class(...) at
\* 211, or the registry at 215) an error of the given class
CreateClientRaises(t, type) ==
    /\ pc[t] = "create"
    /\ IF CreateErrorCaught(type)
       THEN /\ pc' = [pc EXCEPT ![t] = "evict"]
            /\ UNCHANGED outcome
       ELSE /\ pc' = [pc EXCEPT ![t] = "done"]
            /\ outcome' = [outcome EXCEPT ![t] =
                              Raised(CreateExc(type, call_count[t]))]
    /\ UNCHANGED <<self, args, call_count, newClient, retval>>
    /\ UNCHANGED <<histVars, proxyVars, parseVars>>

\* line 189, first target: self.client = ...
AssignSelfClient(t) ==
    /\ pc[t] = "assign_self"
    /\ methodProxies' =
          [methodProxies EXCEPT ![self[t]].client = InstalledClient(t)]
    /\ pc' = [pc EXCEPT ![t] = "assign_proxy"]
    /\ UNCHANGED <<client_class, connection_kwargs, connection_pool_kwargs,
                   client, method_cache, clients, connection_pools, nextPool,
                   lastAccess>>
    /\ UNCHANGED <<self, args, call_count, newClient, retval, outcome>>
    /\ UNCHANGED <<histVars, parseVars>>

\* line 189, second target: self.client_proxy.client = ...; then line 190
\* enters self._call(call_count + 1, *args, **kwargs)
AssignProxyClient(t) ==
    /\ pc[t] = "assign_proxy"
    /\ client' = InstalledClient(t)
    /\ installs' = installs + 1
    /\ call_count' = [call_count EXCEPT ![t] = @ + 1]
    /\ pc' = [pc EXCEPT ![t] = "invoke"]
    /\ UNCHANGED <<client_class, connection_kwargs, connection_pool_kwargs,
                   method_cache, methodProxies, clients, connection_pools,
                   nextPool, lastAccess>>
    /\ UNCHANGED <<self, args, newClient, retval, outcome>>
    /\ UNCHANGED <<invs, evictions, creates, keyErrors, calls>>
    /\ UNCHANGED parseVars

\* line 190 completes in the frame below: the nested _call has returned
\* retval[t]; the frame that made it falls off the end of the except block.
ReturnFromRetry(t) ==
    LET r == RetryResult(retval[t]) IN
    /\ pc[t] = "return"
    /\ call_count' = [call_count EXCEPT ![t] = @ - 1]
    /\ retval' = [retval EXCEPT ![t] = r]
    /\ IF call_count[t] - 1 = 1
       THEN /\ pc' = [pc EXCEPT ![t] = "done"]
            /\ outcome' = [outcome EXCEPT ![t] = Returned(r)]
       ELSE /\ UNCHANGED <<pc, outcome>>
    /\ UNCHANGED <<self, args, newClient>>
    /\ UNCHANGED <<histVars, proxyVars, parseVars>>

\* the caller has the result; the thread is free for its next call
Finish(t) ==
    /\ pc[t] = "done"
    /\ pc' = [pc EXCEPT ![t] = "idle"]
    /\ self' = [self EXCEPT ![t] = 0]
    /\ args' = [args EXCEPT ![t] = None]
    /\ call_count' = [call_count EXCEPT ![t] = 0]
    /\ newClient' = [newClient EXCEPT ![t] = 0]
    /\ retval' = [retval EXCEPT ![t] = None]
    /\ outcome' = [outcome EXCEPT ![t] = NoOutcome]
    /\ invs' = [invs EXCEPT ![t] = <<>>]
    /\ evictions' = [evictions EXCEPT ![t] = 0]
    /\ creates' = [creates EXCEPT ![t] = 0]
    /\ keyErrors' = [keyErrors EXCEPT ![t] = 0]
    /\ UNCHANGED <<installs, calls>>
    /\ UNCHANGED <<proxyVars, parseVars>>

---------------------------------------------------------------------------
(* ClientProxy.__init__ (203-208) has run: the first client is built, bound *)
(* to a freshly registered pool, and the method cache is empty.            *)

ParseIdle ==
    /\ server = None
    /\ db = None
    /\ kwargs = None
    /\ parsed = None

ProxyInit(cache, proxies, access) ==
    /\ client_class = "StrictRedis"
    /\ connection_kwargs = "connA"
    /\ connection_pool_kwargs = "poolA"
    /\ client = 1
    /\ method_cache = cache
    /\ methodProxies = proxies
    /\ clients = << [client_class    |-> "StrictRedis",
                     kwargs          |-> "connA",
                     identifier      |-> ConnectionIdentifier("connA", "poolA"),
                     connection_pool |-> 2] >>
    /\ connection_pools =
          RegisterPool(RegisterPool(<<>>, OtherIdentifier, 1),
                       ConnectionIdentifier("connA", "poolA"), 2)
    /\ nextPool = 3
    /\ lastAccess = access
    /\ pc = [t \in Threads |-> "idle"]
    /\ self = [t \in Threads |-> 0]
    /\ args = [t \in Threads |-> None]
    /\ call_count = [t \in Threads |-> 0]
    /\ newClient = [t \in Threads |-> 0]
    /\ retval = [t \in Threads |-> None]
    /\ outcome = [t \in Threads |-> NoOutcome]
    /\ invs = [t \in Threads |-> <<>>]
    /\ evictions = [t \in Threads |-> 0]
    /\ creates = [t \in Threads |-> 0]
    /\ keyErrors = [t \in Threads |-> 0]
    /\ installs = 1
    /\ calls = 0

NoAccess == [attr |-> None, kind |-> "none", ref |-> 0]

Init == ProxyInit(<<>>, <<>>, NoAccess) /\ ParseIdle

\* The proxy after the application has looked up "get" and then "set" on it:
\* the state two GetAttr steps lead to from Init.
InitConcurrent ==
    /\ ProxyInit([a \in CallableAttrs |-> IF a = "get" THEN 1 ELSE 2],
                 << [client |-> 1, method_attr |-> "get"],
                    [client |-> 1, method_attr |-> "set"] >>,
                 [attr |-> "set", kind |-> "MethodProxy", ref |-> 2])
    /\ ParseIdle

\* Guarded calls made one at a time by a single caller, with member access
\* on the proxy at any moment.
Next ==
    \/ \E attr \in Attrs : GetAttr(attr)
    \/ \E t \in SeqThreads, g \in DOMAIN methodProxies, a \in ArgSets :
          calls < MaxCalls /\ Call(t, g, a)
    \/ \E t \in SeqThreads, v \in Values : InvokeReturns(t, v)
    \/ \E t \in SeqThreads, type \in ErrorTypes : InvokeRaises(t, type)
    \/ \E t \in SeqThreads : Evict(t)
    \/ \E t \in SeqThreads : CreateClient(t)
    \/ \E t \in SeqThreads, type \in ErrorTypes : CreateClientRaises(t, type)
    \/ \E t \in SeqThreads : AssignSelfClient(t)
    \/ \E t \in SeqThreads : AssignProxyClient(t)
    \/ \E t \in SeqThreads : ReturnFromRetry(t)
    \/ \E t \in SeqThreads : Finish(t)

Spec == Init /\ [][Next]_vars

\* Two caller threads, one guarded call in flight per thread, every step of
\* one call interleaved with every step of the other, through the same or
\* through different MethodProxy objects.
NextConcurrent ==
    \/ \E t \in Threads, g \in DOMAIN methodProxies, a \in ArgSets :
          calls < Cardinality(Threads) /\ Call(t, g, a)
    \/ \E t \in Threads, v \in Values : InvokeReturns(t, v)
    \/ \E t \in Threads, type \in ErrorTypes : InvokeRaises(t, type)
    \/ \E t \in Threads : Evict(t)
    \/ \E t \in Threads : CreateClient(t)
    \/ \E t \in Threads, type \in ErrorTypes : CreateClientRaises(t, type)
    \/ \E t \in Threads : AssignSelfClient(t)
    \/ \E t \in Threads : AssignProxyClient(t)
    \/ \E t \in Threads : ReturnFromRetry(t)
    \/ \E t \in Threads : Finish(t)

SpecConcurrent == InitConcurrent /\ [][NextConcurrent]_vars

---------------------------------------------------------------------------
(* parse_connection_kwargs (46-163)                                        *)
(*                                                                         *)
(* Python values are tagged records; strings are sequences of characters   *)
(* (or of longer tokens where the code never looks inside them).           *)

NoneV       == [t |-> "none",  n |-> 0, s |-> <<>>]
IntV(n)     == [t |-> "int",   n |-> n, s |-> <<>>]
StrV(s)     == [t |-> "str",   n |-> 0, s |-> s]
ClassV(c)   == [t |-> "class", n |-> 0, s |-> <<c>>]

\* truth value of a Python object
Truthy(v) ==
    CASE v.t = "none"  -> FALSE
      [] v.t = "int"   -> v.n # 0
      [] v.t = "str"   -> v.s # <<>>
      [] OTHER         -> TRUE

\* a or b
PyOr(a, b) == IF Truthy(a) THEN a ELSE b

Digits == {"0", "1", "2", "3", "4", "5", "6", "7", "8", "9"}

DigitVal(c) ==
    CASE c = "0" -> 0 [] c = "1" -> 1 [] c = "2" -> 2 [] c = "3" -> 3
      [] c = "4" -> 4 [] c = "5" -> 5 [] c = "6" -> 6 [] c = "7" -> 7
      [] c = "8" -> 8 [] c = "9" -> 9

RECURSIVE DigitsToNat(_)
DigitsToNat(s) ==
    IF s = <<>> THEN 0
    ELSE 10 * DigitsToNat(SubSeq(s, 1, Len(s) - 1)) + DigitVal(s[Len(s)])

\* the texts int() accepts: an optional sign and at least one digit
IsNumeral(s) ==
    LET body == IF s # <<>> /\ s[1] \in {"-", "+"} THEN Tail(s) ELSE s IN
    /\ body # <<>>
    /\ \A i \in 1..Len(body) : body[i] \in Digits

\* int(v): [ok, n]; not ok stands for the ValueError / TypeError it raises
PyInt(v) ==
    CASE v.t = "int" -> [ok |-> TRUE, n |-> v.n]
      [] v.t = "str" /\ IsNumeral(v.s) ->
            [ok |-> TRUE,
             n  |-> IF v.s[1] = "-" THEN 0 - DigitsToNat(Tail(v.s))
                    ELSE IF v.s[1] = "+" THEN DigitsToNat(Tail(v.s))
                    ELSE DigitsToNat(v.s)]
      [] OTHER -> [ok |-> FALSE, n |-> 0]

\* s.replace(c, '')
RECURSIVE Remove(_, _)
Remove(s, c) ==
    IF s = <<>> THEN <<>>
    ELSE IF s[1] = c THEN Remove(Tail(s), c)
    ELSE <<s[1]>> \o Remove(Tail(s), c)

\* dict.update
Update(d, e) ==
    [k \in DOMAIN d \cup DOMAIN e |-> IF k \in DOMAIN e THEN e[k] ELSE d[k]]

\* dict.pop(key) followed by d[to] = popped value
Rename(d, from, to) ==
    [k \in (DOMAIN d \ {from}) \cup {to} |-> IF k = to THEN d[from] ELSE d[k]]

EmptyDict == << >>

\* line 109: the port used when the URL has none
DefaultPort == 6379

\* line 77: '://' in server
HasSchemeDelimiter(sv) == sv.form = "url"

\* line 80: urlparse(url).  With legacy set it is the Python 2.6 urlparse,
\* which leaves the query string of a custom scheme in url.path.
urlparse(sv, legacy) ==
    [scheme      |-> sv.scheme,
     hostname    |-> sv.hostname,
     port        |-> sv.port,
     password    |-> sv.password,
     path        |-> sv.path,
     queryInPath |-> legacy /\ sv.query # <<>>,   \* '?' in url.path
     pathTail    |-> IF legacy THEN sv.query ELSE <<>>,
     query       |-> IF legacy THEN <<>> ELSE sv.query]

\* lines 85-91: the query string, and the URL with the query cut off its path
QueryString(raw) ==
    IF raw.queryInPath /\ raw.query = <<>> THEN raw.pathTail ELSE raw.query

Reparsed(raw) ==
    IF raw.queryInPath /\ raw.query = <<>>
    THEN [raw EXCEPT !.queryInPath = FALSE, !.pathTail = <<>>]
    ELSE raw

\* lines 93-97: parse_qs groups the values by name in order of appearance
\* (blank values never reach the code); the first value of each name is kept
QueryOptions(qs) ==
    LET names == {qs[i][1] : i \in 1..Len(qs)}
        first(nm) == CHOOSE i \in 1..Len(qs) :
                        /\ qs[i][1] = nm
                        /\ \A j \in 1..(i - 1) : qs[j][1] # nm
    IN  [nm \in names |-> StrV(qs[first(nm)][2])]

\* lines 100-104
UnixOptions(url, opts) ==
    Update(opts, [password |-> url.password, unix_socket_path |-> StrV(url.path)])

\* lines 107-111
TcpOptions(url, opts) ==
    Update(opts, [host     |-> url.hostname,
                  port     |-> IntV(PyInt(PyOr(url.port, IntV(DefaultPort))).n),
                  password |-> url.password])

\* lines 115-119
PathDatabase(url, opts) ==
    IF "db" \notin DOMAIN opts /\ url.path # <<>>
    THEN LET r == PyInt(StrV(Remove(url.path, "/"))) IN
         IF r.ok THEN Update(opts, [db |-> IntV(r.n)]) ELSE opts
    ELSE opts

\* lines 121-122
SslOptions(url, opts) ==
    IF url.scheme = "rediss"
    THEN Update(opts, [connection_class |-> ClassV("SSLConnection")])
    ELSE opts

\* lines 99-122
SchemeOptions(url, opts) ==
    IF url.scheme = "unix" THEN UnixOptions(url, opts)
    ELSE SslOptions(url, PathDatabase(url, TcpOptions(url, opts)))

\* line 125: url_options.get('db', db or 0)
LastShotDatabase(opts, d) ==
    IF "db" \in DOMAIN opts THEN opts["db"] ELSE PyOr(d, IntV(0))

\* lines 131-138: the deprecated aliases, with one warning each
Aliases(kw) ==
    LET k1 == IF "charset" \in DOMAIN kw
              THEN Rename(kw, "charset", "encoding") ELSE kw
    IN  IF "errors" \in DOMAIN k1
        THEN Rename(k1, "errors", "encoding_errors") ELSE k1

AliasWarnings(kw) ==
    (IF "charset" \in DOMAIN kw THEN <<"charset">> ELSE <<>>)
    \o (IF "errors" \in DOMAIN kw THEN <<"errors">> ELSE <<>>)

ParseReturned(kw, w) ==
    [status |-> "returned", kwargs |-> kw, warnings |-> w,
     exc |-> [type |-> None, port |-> <<>>, server |-> <<>>]]

ParseRaised(type, port, text) ==
    [status |-> "raised", kwargs |-> EmptyDict, warnings |-> <<>>,
     exc |-> [type |-> type, port |-> port, server |-> text]]

NotParsed ==
    [status |-> "none", kwargs |-> EmptyDict, warnings |-> <<>>,
     exc |-> [type |-> None, port |-> <<>>, server |-> <<>>]]

\* lines 77-138
ParseUrl(sv, d, kw, legacy) ==
    LET raw  == urlparse(sv, legacy)
        qs   == QueryString(raw)
        url  == Reparsed(raw)
        opts == SchemeOptions(url, QueryOptions(qs))
        dbv  == PyInt(LastShotDatabase(opts, d))
        all  == Update(kw, Update(opts, [db |-> IntV(dbv.n)]))
    IN  IF ~dbv.ok
        THEN ParseRaised("ValueError", <<>>, <<>>)
        ELSE ParseReturned(Aliases(all), AliasWarnings(all))

\* faulty variant: server.split(':', 1), the split at the first colon
FirstColon(text) ==
    CHOOSE i \in 1..Len(text) :
        text[i] = ":" /\ \A j \in 1..(i - 1) : text[j] # ":"

\* server.rsplit(':', 1)
LastColon(text) ==
    CHOOSE i \in 1..Len(text) :
        text[i] = ":" /\ \A j \in (i + 1)..Len(text) : text[j] # ":"

\* lines 139-161
ParsePlain(sv, d, kw) ==
    LET text == sv.text IN
    IF \E i \in 1..Len(text) : text[i] = ":"
    THEN LET c    == LastColon(text)
             host == SubSeq(text, 1, c - 1)
             port == SubSeq(text, c + 1, Len(text))
             r    == PyInt(StrV(port))
         IN  IF ~r.ok
             THEN ParseRaised("ImproperlyConfigured", port, text)
             ELSE ParseReturned(
                     Update(kw, [host |-> StrV(host), port |-> IntV(r.n),
                                 unix_socket_path |-> NoneV, db |-> d]), <<>>)
    ELSE ParseReturned(
            Update(kw, [host |-> NoneV, port |-> NoneV,
                        unix_socket_path |-> StrV(text), db |-> d]), <<>>)

\* lines 46-163
parse_connection_kwargs(sv, d, kw, legacy) ==
    LET kw0 == Update(kw, [unix_socket_path |-> StrV(<<>>)]) IN   \* line 76
    IF HasSchemeDelimiter(sv) THEN ParseUrl(sv, d, kw0, legacy)
    ELSE ParsePlain(sv, d, kw0)

(* Inputs *)

MaxQueryLen == 2

Schemes   == {"redis", "rediss", "unix", "http"}
Passwords == {NoneV, StrV(<<"pw">>)}
Hostnames == {StrV(<<"localhost">>)}
Ports     == {NoneV, IntV(0), IntV(6380)}
Paths     == { <<>>, <<"/">>, <<"/", "0">>, <<"/", "1">>, <<"/", "a">>,
               <<"/", "1", "/">>, <<"/", "1", "/", "2">>,
               <<"/", "a", "/", "1">>, <<"/", "/", "1">> }
QueryPairs == { <<"db", <<"1">> >>, <<"db", <<"a">> >>,
                <<"password", <<"qp">> >>,
                <<"charset", <<"q">> >>, <<"encoding", <<"q">> >>,
                <<"unix_socket_path", <<"/", "s">> >> }
Queries   == UNION {[1..n -> QueryPairs] : n \in 0..MaxQueryLen}
Defaults  == {NoneV, IntV(0), IntV(2)}

\* what the caller passes as **kwargs
CallerOptions ==
    { EmptyDict,
      [charset |-> StrV(<<"k">>)],
      [encoding |-> StrV(<<"k">>)],
      [charset |-> StrV(<<"k">>), encoding |-> StrV(<<"e">>)],
      [errors |-> StrV(<<"k">>)],
      [encoding_errors |-> StrV(<<"k">>), password |-> StrV(<<"kp">>)] }

UrlServers ==
    [form : {"url"}, scheme : Schemes, password : Passwords,
     hostname : Hostnames, port : Ports, path : Paths, query : Queries,
     text : {<<>>}]

PlainTexts ==
    { <<"h", ":", "9", "9">>, <<"h", ":", "x">>, <<"h", ":">>,
      <<"h", ":", "p", ":", "8">>, <<":", "8", "0">>,
      <<"/", "s">>, <<"h">> }

PlainServers ==
    [form : {"plain"}, scheme : {""}, password : {NoneV}, hostname : {NoneV},
     port : {NoneV}, path : {<<>>}, query : {<<>>}, text : PlainTexts]

Servers == UrlServers \cup PlainServers

\* one call of parse_connection_kwargs(server, db, **kwargs)
ParseConnectionKwargs ==
    /\ parsed = NotParsed
    /\ \E legacy \in BOOLEAN :
          parsed' = parse_connection_kwargs(server, db, kwargs, legacy)
    /\ UNCHANGED <<server, db, kwargs>>
    /\ UNCHANGED <<proxyVars, callVars, histVars>>

InitParse ==
    /\ ProxyInit(<<>>, <<>>, NoAccess)
    /\ server \in Servers
    /\ db \in Defaults
    /\ kwargs \in CallerOptions
    /\ parsed = NotParsed

NextParse == ParseConnectionKwargs

SpecParse == InitParse /\ [][NextParse]_vars

---------------------------------------------------------------------------
(* Reading the history of a call *)

IsConnFailure(inv) ==
    inv.result.kind = "raised" /\ inv.result.exc.type = "ConnectionError"

IsOtherFailure(inv) ==
    inv.result.kind = "raised" /\ inv.result.exc.type = "OtherError"

\* connectivity failures of the call that happened with attempts remaining
RecoverableFailures(t) ==
    Cardinality({i \in 1..Len(invs[t]) :
                    IsConnFailure(invs[t][i]) /\ invs[t][i].attempt < max_call_count})

LastInv(t) == invs[t][Len(invs[t])]

Invoked(t)   == Len(invs'[t]) = Len(invs[t]) + 1
JustInvoked(t) == invs'[t][Len(invs'[t])]

---------------------------------------------------------------------------
(* C1: a guarded call that ends in success returns exactly the value the   *)
(* successful underlying invocation returned, whichever attempt that was.  *)
C1_SuccessReturnsInvocationValue ==
    \A t \in Threads :
        (pc[t] = "done" /\ outcome[t].kind = "returned") =>
            /\ LastInv(t).result.kind = "returned"
            /\ outcome[t].value = LastInv(t).result.value

(* C2: at most max_call_count invocations per call, attempt counter within *)
(* 1..3, invocation i is attempt i, and the call has evicted once and      *)
(* built one client for each connectivity failure on attempts 1 and 2      *)
(* (never more than two); nothing is evicted or built after attempt 3.     *)
C2_BoundedAttemptsAndCycles ==
    \A t \in Threads :
        pc[t] # "idle" =>
            LET f == RecoverableFailures(t) IN
            /\ Len(invs[t]) <= max_call_count
            /\ call_count[t] \in 1..max_call_count
            /\ \A i \in 1..Len(invs[t]) : invs[t][i].attempt = i
            /\ f <= max_call_count - 1
            /\ evictions[t] = IF pc[t] = "evict" THEN f - 1 ELSE f
            /\ creates[t] =
                  IF \/ pc[t] \in {"evict", "create"}
                     \/ (pc[t] = "done" /\ outcome[t].kind = "raised"
                            /\ outcome[t].exc.raisedBy = "create_client")
                  THEN f - 1 ELSE f

C2_Witness ==
    \E t \in Threads :
        /\ pc[t] = "done"
        /\ Len(invs[t]) = max_call_count
        /\ \A i \in 1..max_call_count : IsConnFailure(invs[t][i])
        /\ evictions[t] = 2
        /\ creates[t] = 2

(* C3: when all three attempts fail with a connectivity error the call     *)
(* raises the third attempt's error itself: same type, same payload.       *)
C3_ExhaustedRaisesUnderlyingError ==
    \A t \in Threads :
        (/\ pc[t] = "done"
         /\ Len(invs[t]) = max_call_count
         /\ \A i \in 1..max_call_count : IsConnFailure(invs[t][i])) =>
            /\ outcome[t].kind = "raised"
            /\ outcome[t].exc = LastInv(t).result.exc
            /\ outcome[t].exc.type = "ConnectionError"

C3_Witness ==
    \E t \in Threads :
        /\ pc[t] = "done"
        /\ Len(invs[t]) = max_call_count
        /\ \A i \in 1..max_call_count : IsConnFailure(invs[t][i])
        /\ outcome[t].kind = "raised"

(* C4: an invocation that raises a non-connectivity error ends the call at *)
(* once with that very error; the step evicts nothing, builds no client    *)
(* and leaves ClientProxy.client, the MethodProxy objects and the registry *)
(* as they were; a call that has ended invokes, evicts and builds nothing. *)
C4_OtherErrorPropagatesAtOnce ==
    [][\A t \in Threads :
          /\ (Invoked(t) /\ IsOtherFailure(JustInvoked(t))) =>
                /\ pc'[t] = "done"
                /\ outcome'[t] = Raised(JustInvoked(t).result.exc)
                /\ client' = client
                /\ connection_pools' = connection_pools
                /\ clients' = clients
                /\ methodProxies' = methodProxies
                /\ evictions' = evictions
                /\ creates' = creates
          /\ (pc[t] = "done" /\ pc'[t] # "idle") =>
                /\ pc'[t] = "done"
                /\ invs'[t] = invs[t]
                /\ evictions'[t] = evictions[t]
                /\ creates'[t] = creates[t]
                /\ outcome'[t] = outcome[t]
      ]_vars

C4_Witness ==
    \E t \in Threads :
        /\ pc[t] = "done"
        /\ Len(invs[t]) >= 2
        /\ IsOtherFailure(LastInv(t))
        /\ outcome[t].kind = "raised"
        /\ outcome[t].exc.type = "OtherError"

(* C5: every invocation is made on the client that is ClientProxy.client   *)
(* at that moment, also through a MethodProxy cached before a recovery.    *)
C5_InvokesOnCurrentClient ==
    \A t \in Threads : pc[t] = "invoke" => CallTarget(self[t]) = client

(* C6: eviction removes exactly the registry entry under the identifier of *)
(* the client whose invocation just failed; with the identifier absent it  *)
(* changes nothing and raises nothing, and the recovery goes on to         *)
(* create_client, which leaves the identifier registered with the pool of  *)
(* the new client.                                                         *)
C6_EvictionToleratesAbsentIdentifier ==
    [][\A t \in Threads :
          /\ (pc[t] = "evict" /\ pc'[t] # "evict") =>
                LET id == get_connection_identifier_from_client(LastInv(t).client) IN
                /\ pc'[t] = "create"
                /\ outcome'[t] = outcome[t]
                /\ DOMAIN connection_pools' = DOMAIN connection_pools \ {id}
                /\ \A i \in DOMAIN connection_pools' :
                      connection_pools'[i] = connection_pools[i]
                /\ id \notin DOMAIN connection_pools =>
                      connection_pools' = connection_pools
          /\ (pc[t] = "create" /\ pc'[t] = "assign_self") =>
                LET id == get_connection_identifier_from_client(LastInv(t).client) IN
                /\ id \in DOMAIN connection_pools'
                /\ clients'[newClient'[t]].connection_pool = connection_pools'[id]
      ]_vars

C6_Witness ==
    \E t \in Threads :
        /\ keyErrors[t] > 0
        /\ pc[t] = "invoke"
        /\ call_count[t] = evictions[t] + 1
        /\ call_count[t] >= 2

(* C7: two concurrent calls that both fail on the same client: each stays  *)
(* within three attempts and always has a next step until it ends, an      *)
(* eviction of an identifier the other call evicted raises nothing, and    *)
(* ClientProxy.client only ever changes in an install step, to the whole   *)
(* client the installing call's create_client returned (last install wins).*)
ThreadStep(t) ==
    \/ \E v \in Values : InvokeReturns(t, v)
    \/ \E type \in ErrorTypes : InvokeRaises(t, type)
    \/ Evict(t)
    \/ CreateClient(t)
    \/ AssignSelfClient(t)
    \/ AssignProxyClient(t)
    \/ ReturnFromRetry(t)

WholeClient(c) ==
    /\ c \in 1..Len(clients)
    /\ clients[c].client_class = client_class
    /\ clients[c].kwargs = connection_kwargs
    /\ clients[c].connection_pool \in 1..(nextPool - 1)

C7_ConcurrentRecoveries ==
    /\ [](\A t \in Threads :
            /\ Len(invs[t]) <= max_call_count
            /\ pc[t] # "idle" => call_count[t] \in 1..max_call_count
            /\ pc[t] \notin {"idle", "done"} => ENABLED ThreadStep(t)
            /\ (pc[t] = "done" /\ outcome[t].kind = "raised") =>
                  outcome[t].exc.type # "KeyError")
    /\ [](WholeClient(client))
    /\ [][/\ client' # client =>
                \E t \in Threads :
                    /\ pc[t] = "assign_proxy"
                    /\ pc'[t] = "invoke"
                    /\ installs' = installs + 1
          /\ \A t \in Threads :
                (pc[t] = "assign_proxy" /\ pc'[t] = "invoke") =>
                    /\ client' = newClient[t]
                    /\ WholeClient(newClient[t])
                    /\ newClient[t] \in 2..Len(clients)   \* built in a recovery
         ]_vars

C7_Witness ==
    /\ \A t \in Threads :
          /\ pc[t] = "done"
          /\ IsConnFailure(invs[t][1])
          /\ creates[t] >= 1
    /\ invs[1][1].client = invs[2][1].client
    /\ \E t \in Threads : keyErrors[t] > 0
    /\ installs >= 3

(* C8: member access for a callable name returns the MethodProxy cached    *)
(* for that name, created on first access and never replaced afterwards    *)
(* (one MethodProxy per name, also across recoveries); for a non-callable  *)
(* name it returns the attribute's value on the current client and caches  *)
(* nothing.                                                                *)
C8_MemberAccess ==
    /\ [](/\ DOMAIN method_cache \subseteq CallableAttrs
          /\ Len(methodProxies) = Cardinality(DOMAIN method_cache)
          /\ \A a \in DOMAIN method_cache :
                /\ method_cache[a] \in 1..Len(methodProxies)
                /\ methodProxies[method_cache[a]].method_attr = a
          /\ lastAccess.kind = "MethodProxy" =>
                /\ lastAccess.attr \in CallableAttrs \cap DOMAIN method_cache
                /\ lastAccess.ref = method_cache[lastAccess.attr]
          /\ lastAccess.kind = "value" => lastAccess.attr \in NonCallableAttrs)
    /\ [][/\ \A a \in DOMAIN method_cache :
                a \in DOMAIN method_cache' /\ method_cache'[a] = method_cache[a]
          /\ (lastAccess' # lastAccess /\ lastAccess'.kind = "value") =>
                /\ lastAccess'.ref = clients[client].connection_pool
                /\ method_cache' = method_cache
                /\ methodProxies' = methodProxies
         ]_vars

C8_Witness ==
    /\ lastAccess.kind = "MethodProxy"
    /\ installs > 1
    /\ CallTarget(lastAccess.ref) # client
    /\ Len(methodProxies) = 2

(* C9: the proxy's client class, connection parameters and pool parameters *)
(* never change; ClientProxy.client and the registry change only in the    *)
(* recovery of a call whose latest invocation failed with a connectivity   *)
(* error with attempts remaining, the client only in its install step; and *)
(* outside a recovery the number of clients ever installed is 1 plus the   *)
(* number of clients the recoveries built.                                 *)
C9_FrameOfGuardedCalls ==
    /\ [][/\ client_class' = client_class
          /\ connection_kwargs' = connection_kwargs
          /\ connection_pool_kwargs' = connection_pool_kwargs
          /\ client' # client =>
                \E t \in Threads :
                    /\ pc[t] = "assign_proxy" /\ pc'[t] = "invoke"
                    /\ IsConnFailure(LastInv(t))
                    /\ LastInv(t).attempt < max_call_count
                    /\ client' = newClient[t]
                    /\ installs' = installs + 1
          /\ connection_pools' # connection_pools =>
                \E t \in Threads :
                    /\ pc[t] \in {"evict", "create"} /\ pc'[t] # pc[t]
                    /\ IsConnFailure(LastInv(t))
                    /\ LastInv(t).attempt < max_call_count
         ]_vars
    /\ []((\A t \in Threads : pc[t] \notin {"assign_self", "assign_proxy"}) =>
            installs = Len(clients))

C9_Witness ==
    /\ installs = 3
    /\ \E t \in Threads :
          /\ pc[t] = "done"
          /\ outcome[t].kind = "returned"
          /\ Len(invs[t]) = 1
          /\ client = 3

---------------------------------------------------------------------------
(* Reading the input of a parse *)

IsTcpUrl == server.form = "url" /\ server.scheme \in {"redis", "rediss"}

HasQueryOption(nm) == \E i \in 1..Len(server.query) : server.query[i][1] = nm

FirstQueryValue(nm) ==
    server.query[CHOOSE i \in 1..Len(server.query) :
                    /\ server.query[i][1] = nm
                    /\ \A j \in 1..(i - 1) : server.query[j][1] # nm][2]

\* the path segment that follows the host: the first non-empty text between
\* slashes
RECURSIVE UpToSlash(_)
UpToSlash(s) ==
    IF s = <<>> \/ s[1] = "/" THEN <<>> ELSE <<s[1]>> \o UpToSlash(Tail(s))

RECURSIVE SkipSlashes(_)
SkipSlashes(s) ==
    IF s # <<>> /\ s[1] = "/" THEN SkipSlashes(Tail(s)) ELSE s

FirstSegment(path) == UpToSlash(SkipSlashes(path))

\* the path holds another non-empty segment after the first one
HasLaterSegment(path) ==
    LET rest == SkipSlashes(path)
        seg  == UpToSlash(rest)
    IN  SkipSlashes(SubSeq(rest, Len(seg) + 1, Len(rest))) # <<>>

AllDigits(s) == s # <<>> /\ \A i \in 1..Len(s) : s[i] \in Digits

\* steps (3) and (4): the caller's default database, else 0
FallbackDatabase == IntV(IF db.t = "int" THEN db.n ELSE 0)

(* C10: for a redis:// or rediss:// URL the database is, by first match,   *)
(* the db query parameter, else the path segment after the host when it is *)
(* numeric, else the caller's default, else 0; a non-numeric path segment  *)
(* raises nothing and falls through to the default.  (Empty segments are   *)
(* skipped; where the numeric segment is followed by another segment,      *)
(* either reading of the claim is accepted: that segment alone, or the     *)
(* fall-through.)                                                          *)
C10_DatabasePrecedence ==
    (IsTcpUrl /\ parsed.status # "none") =>
        IF HasQueryOption("db")
        THEN parsed.status = "returned" =>
                parsed.kwargs["db"] = IntV(PyInt(StrV(FirstQueryValue("db"))).n)
        ELSE LET seg == FirstSegment(server.path) IN
             /\ parsed.status = "returned"
             /\ IF AllDigits(seg)
                THEN IF ~HasLaterSegment(server.path)
                     THEN parsed.kwargs["db"] = IntV(DigitsToNat(seg))
                     ELSE parsed.kwargs["db"] \in
                             {IntV(DigitsToNat(seg)), FallbackDatabase}
                ELSE parsed.kwargs["db"] = FallbackDatabase

---------------------------------------------------------------------------
(* C11: parsing an address that contains "://" and whose scheme is not     *)
(* redis, rediss or unix fails with a configuration error and returns no   *)
(* connection parameters.                                                  *)
C11_UnsupportedSchemeRejected ==
    (/\ server.form = "url"
     /\ server.scheme \notin {"redis", "rediss", "unix"}
     /\ parsed.status # "none")
        => /\ parsed.status = "raised"
           /\ parsed.kwargs = EmptyDict

\* the address forms the parser is documented to accept
IsAcceptedForm ==
    \/ server.form = "plain"
    \/ server.form = "url" /\ server.scheme \in {"redis", "rediss", "unix"}

(* C12: for every accepted address form (scheme URL, host:port, bare       *)
(* socket path) and every default database, none included, the database of *)
(* the result is a single non-negative integer, never unset or null; in    *)
(* particular host:port with no default database yields database 0.        *)
C12_DatabaseAlwaysResolved ==
    (IsAcceptedForm /\ parsed.status = "returned") =>
        /\ "db" \in DOMAIN parsed.kwargs
        /\ parsed.kwargs["db"].t = "int"
        /\ parsed.kwargs["db"].n >= 0
        /\ (server.form = "plain" /\ db = NoneV) => parsed.kwargs["db"] = IntV(0)

(* C13: for a redis:// or rediss:// URL the port of the result is the port *)
(* written in the URL whenever one is written, the explicit value 0        *)
(* included, and 6379 only when the URL has no port.                       *)
C13_WrittenPortKept ==
    (IsTcpUrl /\ parsed.status = "returned") =>
        parsed.kwargs["port"] =
            (IF server.port = NoneV THEN IntV(6379) ELSE server.port)

\* the canonical key of an option name (lines 131-138)
CanonicalOf(k) ==
    IF k = "charset" THEN "encoding"
    ELSE IF k = "errors" THEN "encoding_errors"
    ELSE k

\* the query-string pairs that land on the canonical key K
QueryPairsFor(K) ==
    {i \in 1..Len(server.query) : CanonicalOf(server.query[i][1]) = K}

\* canonical keys given both by the caller and by the query string.  The
\* password is left to C15: the URL's userinfo feeds that key as well.
CollidingKeys ==
    {K \in {CanonicalOf(k) : k \in DOMAIN kwargs} \ {"password"} :
        QueryPairsFor(K) # {}}

(* C14: on every key collision between the caller's options and the        *)
(* query-string options the value in the result is the query-string one,   *)
(* also through the aliases: when the caller gives charset (or errors) and *)
(* the query string gives encoding (or the encoding-errors key), or the    *)
(* reverse, the value under the canonical key is the query-string one.     *)
C14_QueryStringWins ==
    (server.form = "url" /\ parsed.status = "returned") =>
        \A K \in CollidingKeys :
            /\ K \in DOMAIN parsed.kwargs
            /\ \E i \in QueryPairsFor(K) :
                  parsed.kwargs[K] = StrV(server.query[i][2])

(* C15: for a redis:// or rediss:// URL the password of the result is the  *)
(* one of the URL's userinfo when the userinfo carries one, and otherwise  *)
(* the password query parameter when there is one: a query-string password *)
(* is not lost when the URL has no userinfo.                               *)
C15_PasswordFromUserinfoElseQuery ==
    (IsTcpUrl /\ parsed.status = "returned") =>
        /\ server.password # NoneV =>
              parsed.kwargs["password"] = server.password
        /\ (server.password = NoneV /\ HasQueryOption("password")) =>
              parsed.kwargs["password"] = StrV(FirstQueryValue("password"))

\* the transport the address asks for: a unix socket for unix:// and for a
\* text without colon, TCP otherwise
IsUnixAddress ==
    \/ server.form = "url" /\ server.scheme = "unix"
    \/ server.form = "plain" /\ \A i \in 1..Len(server.text) : server.text[i] # ":"

HostPopulated(kw) ==
    "host" \in DOMAIN kw /\ kw["host"].t = "str" /\ kw["host"].s # <<>>

PortPopulated(kw) == "port" \in DOMAIN kw /\ kw["port"].t = "int"

SocketPathPopulated(kw) ==
    /\ "unix_socket_path" \in DOMAIN kw
    /\ kw["unix_socket_path"].t = "str"
    /\ kw["unix_socket_path"].s # <<>>

(* C16: every successful parse has exactly one of the two address shapes   *)
(* populated, the one its transport dictates: host and port populated and  *)
(* the unix socket path empty or absent (TCP, with or without TLS), or the *)
(* unix socket path populated and host and port empty or absent.  This     *)
(* holds for scheme URLs, for host:port and for a bare socket path.        *)
C16_ExactlyOneAddressShape ==
    (IsAcceptedForm /\ parsed.status = "returned") =>
        LET kw == parsed.kwargs IN
        IF IsUnixAddress
        THEN SocketPathPopulated(kw) /\ ~HostPopulated(kw) /\ ~PortPopulated(kw)
        ELSE HostPopulated(kw) /\ PortPopulated(kw) /\ ~SocketPathPopulated(kw)

HasColon(s) == \E i \in 1..Len(s) : s[i] = ":"

\* the text that follows the last colon of s, and the text that precedes it
RECURSIVE AfterLastColon(_)
AfterLastColon(s) ==
    IF s = <<>> \/ s[Len(s)] = ":" THEN <<>>
    ELSE AfterLastColon(SubSeq(s, 1, Len(s) - 1)) \o <<s[Len(s)]>>

BeforeLastColon(s) == SubSeq(s, 1, Len(s) - Len(AfterLastColon(s)) - 1)

(* C17: for an address without "://": when it contains a colon, the text   *)
(* after the last colon must be an integer; if it is not, parsing fails    *)
(* with a configuration error whose message carries the offending port     *)
(* text and the whole original input, and no connection parameters are     *)
(* returned; if it is, host and port are the two sides of that colon.      *)
(* When it contains no colon the whole string is the unix socket path,     *)
(* with no host and no port.                                               *)
C17_PlainAddress ==
    (server.form = "plain" /\ parsed.status # "none") =>
        LET text == server.text
            port == AfterLastColon(text)
        IN  IF HasColon(text)
            THEN IF IsNumeral(port)
                 THEN /\ parsed.status = "returned"
                      /\ parsed.kwargs["host"] = StrV(BeforeLastColon(text))
                      /\ parsed.kwargs["port"] = IntV(PyInt(StrV(port)).n)
                 ELSE /\ parsed.status = "raised"
                      /\ parsed.exc.type = "ImproperlyConfigured"
                      /\ parsed.exc.port = port
                      /\ parsed.exc.server = text
                      /\ parsed.kwargs = EmptyDict
            ELSE /\ parsed.status = "returned"
                 /\ parsed.kwargs["unix_socket_path"] = StrV(text)
                 /\ parsed.kwargs["host"] = NoneV
                 /\ parsed.kwargs["port"] = NoneV

\* a host:port text with a non-integer port has been refused
C17_Witness ==
    /\ server.form = "plain"
    /\ server.text = <<"h", ":", "x">>
    /\ parsed.status = "raised"
    /\ parsed.exc.port = <<"x">>

---------------------------------------------------------------------------
\* the steps of the call of thread t, read off one transition
C18_Order(t) ==
    LET n == Len(invs[t]) IN
    \* an invocation is made only in the invoking state: none between a
    \* failure and the end of its recreate
    /\ Invoked(t) =>
          /\ pc[t] = "invoke"
          /\ JustInvoked(t).attempt = n + 1
          /\ n > 0 =>
                /\ IsConnFailure(LastInv(t))
                /\ LastInv(t).attempt < max_call_count
                /\ JustInvoked(t).args = LastInv(t).args
                /\ JustInvoked(t).attr = LastInv(t).attr
                /\ evictions[t] = n
                /\ creates[t] = n
                /\ client = newClient[t]
                /\ JustInvoked(t).client = newClient[t]
          /\ IF IsConnFailure(JustInvoked(t))
                /\ JustInvoked(t).attempt < max_call_count
             THEN pc'[t] = "evict"
             ELSE pc'[t] \in {"done", "return"}
    \* failure -> eviction -> createClient -> installation -> invocation
    /\ (pc[t] = "evict" /\ pc'[t] # "evict") =>
          /\ pc'[t] = "create"
          /\ evictions'[t] = evictions[t] + 1
          /\ creates'[t] = creates[t]
          /\ client' = client
    /\ (pc[t] = "create" /\ pc'[t] # "create") =>
          \/ /\ pc'[t] = "assign_self"
             /\ creates'[t] = creates[t] + 1
             /\ Len(clients') = Len(clients) + 1
             /\ newClient'[t] = Len(clients')
             /\ client' = client
          \/ /\ pc'[t] = "done"          \* createClient failed
             /\ outcome'[t].kind = "raised"
             /\ creates'[t] = creates[t]
             /\ client' = client
    /\ (pc[t] = "assign_self" /\ pc'[t] # "assign_self") =>
          pc'[t] = "assign_proxy"
    /\ (pc[t] = "assign_proxy" /\ pc'[t] # "assign_proxy") =>
          /\ pc'[t] = "invoke"
          /\ client' = newClient[t]
          /\ call_count'[t] = call_count[t] + 1
          /\ args'[t] = args[t]
          /\ self'[t] = self[t]
    \* one chain: evictions and creations happen nowhere else
    /\ evictions'[t] > evictions[t] => pc[t] = "evict"
    /\ creates'[t] > creates[t] => pc[t] = "create"
    /\ Len(clients') > Len(clients) => pc[t] = "create"
    \* the end of the call
    /\ (pc[t] # "done" /\ pc'[t] = "done") =>
          \/ /\ outcome'[t].kind = "returned"
             /\ invs'[t][Len(invs'[t])].result.kind = "returned"
          \/ /\ outcome'[t].kind = "raised"
             /\ \/ /\ Invoked(t)
                   /\ JustInvoked(t).result.kind = "raised"
                   /\ outcome'[t].exc = JustInvoked(t).result.exc
                   /\ \/ IsOtherFailure(JustInvoked(t))
                      \/ JustInvoked(t).attempt = max_call_count
                \/ pc[t] = "create"

(* C18: within one guarded call the steps follow the per-call state        *)
(* machine in order: a connectivity failure with attempts remaining is     *)
(* followed by the eviction, then createClient, then the installation of   *)
(* the new client as the proxy's current client, and only then by the next *)
(* invocation, made with attempt + 1 and the same arguments; no invocation *)
(* is made between a failure and the end of its recreate, one such chain   *)
(* runs per call, and the call ends in success or in a fatal error (a      *)
(* createClient that raises cuts the chain short and ends the call with    *)
(* its error).                                                             *)
C18_PerCallStateMachine == [][\A t \in SeqThreads : C18_Order(t)]_vars

\* a failure at attempt 1 has been followed by eviction, createClient and
\* installation, and attempt 2 has been made on the new client
C18_Witness ==
    /\ Len(invs[1]) = 2
    /\ IsConnFailure(invs[1][1])
    /\ invs[1][2].attempt = 2
    /\ invs[1][2].client = newClient[1]
    /\ evictions[1] = 1
    /\ creates[1] = 1
    /\ client = newClient[1]

---------------------------------------------------------------------------
\* no guarded call is in progress
NoCallInProgress == \A t \in Threads : pc[t] = "idle"

(* C19: whenever no guarded call is in progress, the pool bound to the     *)
(* proxy's current client is the pool registered in the registry under     *)
(* that client's connection identifier: after any sequence of guarded      *)
(* calls through one or several cached MethodProxy objects of the proxy,   *)
(* and after any interleaving of concurrent failing calls.                 *)
C19_CurrentClientPoolIsRegistered ==
    NoCallInProgress =>
        LET id == get_connection_identifier_from_client(client) IN
        /\ id \in DOMAIN connection_pools
        /\ connection_pools[id] = clients[client].connection_pool

---------------------------------------------------------------------------
\* the call of thread t has ended with an error of create_client
EndedByCreateError(t) ==
    /\ pc[t] = "done"
    /\ outcome[t].kind = "raised"
    /\ outcome[t].exc.raisedBy = "create_client"

(* C20: when create_client itself raises during a recovery, whatever the   *)
(* class of the error (ConnectionError included), that error goes to the   *)
(* caller of the guarded call: no further attempt is made and nothing is   *)
(* evicted a second time, ClientProxy.client and the MethodProxy's client  *)
(* remain the previous client, and the registry entry evicted just before  *)
(* stays evicted.                                                          *)
C20_CreateClientErrorPropagates ==
    [][\A t \in SeqThreads :
          \* the step in which create_client raises: the create state is left
          \* without a client having been built
          /\ (pc[t] = "create" /\ pc'[t] # "create"
                /\ Len(clients') = Len(clients)) =>
                LET id == get_connection_identifier_from_client(LastInv(t).client)
                IN  /\ pc'[t] = "done"
                    /\ outcome'[t].kind = "raised"
                    /\ outcome'[t].exc.raisedBy = "create_client"
                    /\ outcome'[t].exc.type \in ErrorTypes
                    /\ invs' = invs
                    /\ evictions' = evictions
                    /\ creates' = creates
                    /\ client' = client
                    /\ methodProxies' = methodProxies
                    /\ methodProxies[self[t]].client = LastInv(t).client
                    /\ connection_pools' = connection_pools
                    /\ id \notin DOMAIN connection_pools'
          \* from then on the call only hands the error to its caller
          /\ EndedByCreateError(t) =>
                LET id == get_connection_identifier_from_client(LastInv(t).client)
                IN  /\ pc'[t] \in {"done", "idle"}
                    /\ pc'[t] = "done" => outcome'[t] = outcome[t]
                    /\ ~Invoked(t)
                    /\ evictions'[t] <= evictions[t]
                    /\ creates'[t] <= creates[t]
                    /\ client' = client
                    /\ methodProxies'[self[t]] = methodProxies[self[t]]
                    /\ connection_pools' = connection_pools
                    /\ id \notin DOMAIN connection_pools
      ]_vars

\* create_client has raised a ConnectionError in the recovery of attempt 1
C20_Witness ==
    /\ EndedByCreateError(1)
    /\ outcome[1].exc.type = "ConnectionError"
    /\ Len(invs[1]) = 1
    /\ evictions[1] = 1
    /\ creates[1] = 0
    /\ client = 1
    /\ methodProxies[self[1]].client = 1
    /\ get_connection_identifier_from_client(1) \notin DOMAIN connection_pools

====
